---------------------------- MODULE Spec2Model ----------------------------
(***************************************************************************)
(* A model of trixo, a command-line project scaffolder.                    *)
(*                                                                         *)
(* Text is modelled as a sequence of code units: a one-character string    *)
(* per character (TLC cannot index a TLA+ string).  A generated file's     *)
(* boilerplate, which holds neither a brace nor a dollar sign, is one       *)
(* opaque unit such as "[main.py: imports]"; everything the generator      *)
(* interpolates or the substitution pass can touch is spelled out           *)
(* character by character.                                                  *)
(***************************************************************************)
EXTENDS Naturals, Sequences, FiniteSets, TLC

VARIABLES
    argName,       \* cli.ts:12  the positional [project-name] argument (<<>>: none)
    pc,            \* cli.ts:12-65  the position of program.action
    projectName,   \* cli.ts:16
    language,      \* cli.ts:20
    framework,     \* cli.ts:21
    options,       \* cli.ts:39  ProjectOptions: option key -> boolean
    generator,     \* cli.ts:34  the class of the resolved generator instance
    generatorMap,  \* registry.ts:14  "<language>:<framework>" -> generator class
    roots,         \* the template candidate locations on disk
    disk,          \* the working directory: path -> content
    error,         \* the error generate() threw, or NoError
    exitCode,      \* process exit status ("none" while running)
    fault          \* the I/O step of generate() that failed, or "none"

vars == <<argName, pc, projectName, language, framework, options, generator,
          generatorMap, roots, disk, error, exitCode, fault>>

-----------------------------------------------------------------------------
(* Bounds of the model *)

\* longest project name drawn for the substitution checks
MaxNameLen == 3
\* most option keys a caller sets to false in an options map
MaxExplicit == 1
\* most options enabled in the maps generate() is compared over
MaxEnabled == 2
\* most check boxes ticked in the options prompt
MaxSelected == 1

-----------------------------------------------------------------------------
(* JavaScript strings *)

Lower ==
    <<"a", "b", "c", "d", "e", "f", "g", "h", "i", "j", "k", "l", "m",
      "n", "o", "p", "q", "r", "s", "t", "u", "v", "w", "x", "y", "z">>

Upper ==
    <<"A", "B", "C", "D", "E", "F", "G", "H", "I", "J", "K", "L", "M",
      "N", "O", "P", "Q", "R", "S", "T", "U", "V", "W", "X", "Y", "Z">>

Digits == <<"0", "1", "2", "3", "4", "5", "6", "7", "8", "9">>

\* The code units the model's strings use, in ascending code-unit order
\* (ASCII; the double quote, the backslash and the grave accent are left out), after the line
\* feed and the tab, which stand for the control characters.
CodeUnits ==
    <<"\n", "\t", " ", "!", "#", "$", "%", "&", "'", "(", ")", "*", "+",
      ",", "-", ".", "/">> \o Digits \o
    <<":", ";", "<", "=", ">", "?", "@">> \o Upper \o
    <<"[", "]", "^", "_">> \o Lower \o <<"{", "|", "}", "~">>

Range(s) == {s[i] : i \in 1..Len(s)}

IndexIn(c, s) == CHOOSE i \in 1..Len(s) : s[i] = c

\* the rank of a code unit: its position in CodeUnits
CharCode(c) == IndexIn(c, CodeUnits)

\* String.prototype.toLowerCase / toUpperCase, one code unit
LowerChar(c) == IF c \in Range(Upper) THEN Lower[IndexIn(c, Upper)] ELSE c
UpperChar(c) == IF c \in Range(Lower) THEN Upper[IndexIn(c, Lower)] ELSE c

toLowerCase(s) == [i \in 1..Len(s) |-> LowerChar(s[i])]
toUpperCase(s) == [i \in 1..Len(s) |-> UpperChar(s[i])]

\* s.startsWith(t, at position i - 1)
MatchesAt(s, t, i) ==
    /\ i + Len(t) - 1 <= Len(s)
    /\ \A j \in 1..Len(t) : s[i + j - 1] = t[j]

\* String.prototype.includes
includes(s, t) == \E i \in 1..(Len(s) + 1) : MatchesAt(s, t, i)

\* a < b in the order of Array.prototype.sort() without a comparator:
\* code unit by code unit, a proper prefix first
RECURSIVE StrLess(_, _)
StrLess(a, b) ==
    IF b = <<>> THEN FALSE
    ELSE IF a = <<>> THEN TRUE
    ELSE IF Head(a) # Head(b) THEN CharCode(Head(a)) < CharCode(Head(b))
    ELSE StrLess(Tail(a), Tail(b))

\* Array.from(new Set(xs)): the first occurrence of each element, in order
RECURSIVE Dedup(_)
Dedup(xs) ==
    IF xs = <<>> THEN <<>>
    ELSE LET init == Dedup(SubSeq(xs, 1, Len(xs) - 1))
             last == xs[Len(xs)]
         IN  IF last \in Range(init) THEN init ELSE Append(init, last)

\* lines.join(LF) + LF
RECURSIVE JoinLines(_)
JoinLines(lines) ==
    IF lines = <<>> THEN <<>>
    ELSE Head(lines) \o <<"\n">> \o JoinLines(Tail(lines))

\* the lines of a text, each ended by a line feed
RECURSIVE SplitLines(_)
SplitLines(text) ==
    IF text = <<>> THEN <<>>
    ELSE IF "\n" \notin Range(text) THEN <<text>>
    ELSE LET n == CHOOSE i \in 1..Len(text) :
                      text[i] = "\n" /\ \A j \in 1..(i - 1) : text[j] # "\n"
         IN  <<SubSeq(text, 1, n - 1)>> \o SplitLines(SubSeq(text, n + 1, Len(text)))

-----------------------------------------------------------------------------
(* config/python-options.ts: the option catalog *)

dep_sqlalchemy == <<"s", "q", "l", "a", "l", "c", "h", "e", "m", "y">>
dep_alembic == <<"a", "l", "e", "m", "b", "i", "c">>
dep_pytest == <<"p", "y", "t", "e", "s", "t">>
dep_pytest_asyncio ==
    <<"p", "y", "t", "e", "s", "t", "-", "a", "s", "y", "n", "c", "i", "o">>
dep_httpx == <<"h", "t", "t", "p", "x">>
dep_python_dotenv ==
    <<"p", "y", "t", "h", "o", "n", "-", "d", "o", "t", "e", "n", "v">>
dep_ruff == <<"r", "u", "f", "f">>
dep_black == <<"b", "l", "a", "c", "k">>
dep_pre_commit == <<"p", "r", "e", "-", "c", "o", "m", "m", "i", "t">>
dep_structlog == <<"s", "t", "r", "u", "c", "t", "l", "o", "g">>

\* PYTHON_OPTIONS with tests declaring pytest alone (the fallback of
\* generateRequirementsTxt still pushes all three packages)
PYTHON_OPTIONS_ShortTests ==
    << [key |-> "orm", default |-> FALSE, dependencies |-> <<dep_sqlalchemy>>],
       [key |-> "migrations", default |-> FALSE, dependencies |-> <<dep_alembic>>],
       [key |-> "docker", default |-> FALSE, dependencies |-> <<>>],
       [key |-> "dockerCompose", default |-> FALSE, dependencies |-> <<>>],
       [key |-> "tests", default |-> TRUE, dependencies |-> <<dep_pytest>>],
       [key |-> "envFiles", default |-> TRUE, dependencies |-> <<dep_python_dotenv>>],
       [key |-> "prodConfig", default |-> FALSE, dependencies |-> <<>>],
       [key |-> "devConfig", default |-> TRUE, dependencies |-> <<>>],
       [key |-> "linter", default |-> TRUE, dependencies |-> <<dep_ruff>>],
       [key |-> "formatter", default |-> TRUE, dependencies |-> <<dep_black>>],
       [key |-> "preCommit", default |-> FALSE, dependencies |-> <<dep_pre_commit>>],
       [key |-> "readme", default |-> TRUE, dependencies |-> <<>>],
       [key |-> "apiDocs", default |-> TRUE, dependencies |-> <<>>],
       [key |-> "logging", default |-> TRUE, dependencies |-> <<dep_structlog>>],
       [key |-> "monitoring", default |-> FALSE, dependencies |-> <<>>] >>

\* The catalog in declaration order (Object.values).  An option that declares
\* no dependencies has the empty list: the only reader skips it either way.
PYTHON_OPTIONS ==
    << [key |-> "orm", default |-> FALSE, dependencies |-> <<dep_sqlalchemy>>],
       [key |-> "migrations", default |-> FALSE, dependencies |-> <<dep_alembic>>],
       [key |-> "docker", default |-> FALSE, dependencies |-> <<>>],
       [key |-> "dockerCompose", default |-> FALSE, dependencies |-> <<>>],
       [key |-> "tests", default |-> TRUE,
        dependencies |-> <<dep_pytest, dep_pytest_asyncio, dep_httpx>>],
       [key |-> "envFiles", default |-> TRUE, dependencies |-> <<dep_python_dotenv>>],
       [key |-> "prodConfig", default |-> FALSE, dependencies |-> <<>>],
       [key |-> "devConfig", default |-> TRUE, dependencies |-> <<>>],
       [key |-> "linter", default |-> TRUE, dependencies |-> <<dep_ruff>>],
       [key |-> "formatter", default |-> TRUE, dependencies |-> <<dep_black>>],
       [key |-> "preCommit", default |-> FALSE, dependencies |-> <<dep_pre_commit>>],
       [key |-> "readme", default |-> TRUE, dependencies |-> <<>>],
       [key |-> "apiDocs", default |-> TRUE, dependencies |-> <<>>],
       [key |-> "logging", default |-> TRUE, dependencies |-> <<dep_structlog>>],
       [key |-> "monitoring", default |-> FALSE, dependencies |-> <<>>] >>

getPythonOptions == PYTHON_OPTIONS

\* the keys of the catalog
PythonOptionKeys == {PYTHON_OPTIONS[i].key : i \in 1..Len(PYTHON_OPTIONS)}

\* the catalog entry of a key
getPythonOption(k) ==
    PYTHON_OPTIONS[CHOOSE i \in 1..Len(PYTHON_OPTIONS) : PYTHON_OPTIONS[i].key = k]

-----------------------------------------------------------------------------
(* ProjectOptions: a map from some option keys to booleans *)

\* if (opts.k): the key is present and true
Truthy(opts, k) == k \in DOMAIN opts /\ opts[k] = TRUE

\* opts.k !== false: the key is absent (undefined) or true
NotFalse(opts, k) == k \notin DOMAIN opts \/ opts[k] = TRUE

\* the options a map enables
Enabled(opts) == {k \in DOMAIN opts : opts[k] = TRUE}

-----------------------------------------------------------------------------
(* generators/fastapi.ts: the dependency manifest *)

req_fastapi ==
    <<"f", "a", "s", "t", "a", "p", "i", ">", "=", "0", ".", "1", "0", "4", ".", "1">>
req_uvicorn ==
    <<"u", "v", "i", "c", "o", "r", "n", "[", "s", "t", "a", "n", "d", "a", "r", "d",
      "]", ">", "=", "0", ".", "2", "4", ".", "0">>
req_pydantic_settings ==
    <<"p", "y", "d", "a", "n", "t", "i", "c", "-", "s", "e", "t", "t", "i", "n", "g",
      "s", ">", "=", "2", ".", "1", ".", "0">>
req_python_dotenv ==
    <<"p", "y", "t", "h", "o", "n", "-", "d", "o", "t", "e", "n", "v", ">", "=", "1",
      ".", "0", ".", "0">>
req_sqlalchemy ==
    <<"s", "q", "l", "a", "l", "c", "h", "e", "m", "y", ">", "=", "2", ".", "0", ".",
      "2", "3">>
req_alembic ==
    <<"a", "l", "e", "m", "b", "i", "c", ">", "=", "1", ".", "1", "2", ".", "1">>
req_pytest == <<"p", "y", "t", "e", "s", "t", ">", "=", "7", ".", "4", ".", "3">>
req_pytest_asyncio ==
    <<"p", "y", "t", "e", "s", "t", "-", "a", "s", "y", "n", "c", "i", "o", ">", "=",
      "0", ".", "2", "1", ".", "1">>
req_httpx == <<"h", "t", "t", "p", "x", ">", "=", "0", ".", "2", "5", ".", "2">>

\* the version constraint given to every catalog dependency
ver_any == <<">", "=", "0", ".", "0", ".", "0">>

\* the three requirements every manifest starts with
BaseRequirements == <<req_fastapi, req_uvicorn, req_pydantic_settings>>

\* a test for a requirement equal to t
SomeIncludes_Equal(requirements, t) ==
    \E i \in 1..Len(requirements) : requirements[i] = t

\* requirements.some((r) => r.includes(t))
SomeIncludes(requirements, t) ==
    \E i \in 1..Len(requirements) : includes(requirements[i], t)

\* the loop over getPythonOptions(): every truthy option's dependencies,
\* each as dep + ver_any, appended in catalog order
RECURSIVE PushOptionDependencies(_, _, _)
PushOptionDependencies(requirements, opts, catalog) ==
    IF catalog = <<>> THEN requirements
    ELSE LET option == Head(catalog)
             deps == [i \in 1..Len(option.dependencies) |->
                         option.dependencies[i] \o ver_any]
         IN  PushOptionDependencies(
                 IF Truthy(opts, option.key) THEN requirements \o deps
                                             ELSE requirements,
                 opts, Tail(catalog))

\* the lines left in the order they were pushed
SortLines_InsertionOrder(lines) == lines

\* Array.prototype.sort() without a comparator
SortLines(lines) == SortSeq(lines, StrLess)

\* the lines of requirements.txt: the base requirements, every truthy
\* option's dependencies, the four fallbacks, deduplicated and sorted
RequirementLines(opts) ==
    LET fallback(r, wanted, dep, lines) ==
            IF wanted /\ ~SomeIncludes(r, dep) THEN r \o lines ELSE r
        r0 == PushOptionDependencies(BaseRequirements, opts, getPythonOptions)
        r1 == fallback(r0, NotFalse(opts, "envFiles"), dep_python_dotenv,
                       <<req_python_dotenv>>)
        r2 == fallback(r1, Truthy(opts, "orm"), dep_sqlalchemy, <<req_sqlalchemy>>)
        r3 == fallback(r2, Truthy(opts, "migrations"), dep_alembic, <<req_alembic>>)
        r4 == fallback(r3, NotFalse(opts, "tests"), dep_pytest,
                       <<req_pytest, req_pytest_asyncio, req_httpx>>)
    IN  SortLines(Dedup(r4))

\* the text of requirements.txt for an options map
RequirementsTxt(opts) == JoinLines(RequirementLines(opts))

\* the package a requirement line names: the text before its constraint
PackageName(line) ==
    IF ">" \in Range(line)
    THEN SubSeq(line, 1, (CHOOSE i \in 1..Len(line) :
                             line[i] = ">" /\ \A j \in 1..(i - 1) : line[j] # ">") - 1)
    ELSE line

\* the packages a manifest text lists
PackageNames(text) == {PackageName(l) : l \in Range(SplitLines(text))}

-----------------------------------------------------------------------------
(* The file system (fs-extra) *)

NoError == "none"

\* an entry of the working directory: a directory, or a file and its text
Dir == [kind |-> "dir", text |-> <<>>]
File(text) == [kind |-> "file", text |-> text]

\* path.join(targetPath, ...rel): a path below the working directory, the
\* target directory's name (a project name) and the segments below it
Path(target, rel) == [dir |-> target, rel |-> rel]

Parent(p) == [dir |-> p.dir, rel |-> SubSeq(p.rel, 1, Len(p.rel) - 1)]

\* the paths from the target directory down to p, p included
Ancestors(p) == {[dir |-> p.dir, rel |-> SubSeq(p.rel, 1, n)] : n \in 0..Len(p.rel)}

\* fs.pathExists
pathExists(d, p) == p \in DOMAIN d

IsDir(d, p) == p \in DOMAIN d /\ d[p].kind = "dir"
IsFile(d, p) == p \in DOMAIN d /\ d[p].kind = "file"

\* the working directory itself always exists
ParentIsDir(d, p) == p.rel = <<>> \/ IsDir(d, Parent(p))

\* the entries of the tree rooted at a target directory
Under(d, target) == {p \in DOMAIN d : p.dir = target}

\* A step of a generator threads st = [disk, err]: once err is set, the
\* exception has been thrown and the remaining steps do nothing.

\* fs.ensureDir: mkdir -p
ensureDir(st, p) ==
    IF st.err # NoError THEN st
    ELSE IF \E a \in Ancestors(p) : IsFile(st.disk, a)
         THEN [st EXCEPT !.err = "ENOTDIR"]
    ELSE [st EXCEPT !.disk = [a \in Ancestors(p) |-> Dir] @@ st.disk]

\* fs.writeFile: creates or replaces a file; the parent directory must exist
writeFile(st, p, text) ==
    IF st.err # NoError THEN st
    ELSE IF ~ParentIsDir(st.disk, p) THEN [st EXCEPT !.err = "ENOENT"]
    ELSE IF IsDir(st.disk, p) THEN [st EXCEPT !.err = "EISDIR"]
    ELSE [st EXCEPT !.disk = (p :> File(text)) @@ st.disk]

\* fs.appendFile: creates the file when it is missing
appendFile(st, p, text) ==
    IF st.err # NoError THEN st
    ELSE IF ~ParentIsDir(st.disk, p) THEN [st EXCEPT !.err = "ENOENT"]
    ELSE IF IsDir(st.disk, p) THEN [st EXCEPT !.err = "EISDIR"]
    ELSE [st EXCEPT !.disk =
             (p :> File((IF IsFile(st.disk, p) THEN st.disk[p].text ELSE <<>>) \o text))
             @@ st.disk]

-----------------------------------------------------------------------------
(* generators/base.generator.ts: placeholder substitution *)

key_projectName == <<"p", "r", "o", "j", "e", "c", "t", "N", "a", "m", "e">>
key_projectNameSnake == key_projectName \o <<"S", "n", "a", "k", "e">>
key_projectNameKebab == key_projectName \o <<"K", "e", "b", "a", "b">>
\* a key no generator resolves
key_author == <<"a", "u", "t", "h", "o", "r">>

\* the text a key's pattern matches.  new RegExp('{{' + key + '}}', 'g'): a
\* brace that opens no quantifier matches itself, and the keys are letters
Token(key) == <<"{", "{">> \o key \o <<"}", "}">>

\* the tokens the generators resolve
RecognizedTokens ==
    {Token(key_projectName), Token(key_projectNameSnake), Token(key_projectNameKebab)}

\* GetSubstitution (ECMAScript 22.1.3.19.1) for a pattern without capture
\* groups: in the replacement text, $$ is a dollar sign, $& the matched text,
\* $' the text after the match; a dollar sign before anything else, a digit
\* included, stands for itself.  ($ before a grave accent, the text before
\* the match, is left out with the grave accent.)
RECURSIVE GetSubstitution(_, _, _, _)
GetSubstitution(matched, str, position, replacement) ==
    IF replacement = <<>> THEN <<>>
    ELSE IF Head(replacement) = "$" /\ Len(replacement) >= 2
            /\ replacement[2] \in {"$", "&", "'"}
    THEN (CASE replacement[2] = "$" -> <<"$">>
            [] replacement[2] = "&" -> matched
            [] replacement[2] = "'" ->
                   SubSeq(str, position + Len(matched), Len(str)))
         \o GetSubstitution(matched, str, position,
                            SubSeq(replacement, 3, Len(replacement)))
    ELSE <<Head(replacement)>>
         \o GetSubstitution(matched, str, position, Tail(replacement))

\* str.replace(pattern, replacement) for a global pattern matching the literal
\* text pat: from index i on, the text up to the leftmost match, what the
\* match is replaced by, and the same again after the match
RECURSIVE ReplaceFrom(_, _, _, _)
ReplaceFrom(str, pat, replacement, i) ==
    LET later == {j \in i..Len(str) : MatchesAt(str, pat, j)}
        m == CHOOSE j \in later : \A k \in later : j <= k
    IN  IF later = {} THEN SubSeq(str, i, Len(str))
        ELSE SubSeq(str, i, m - 1)
             \o GetSubstitution(pat, str, m, replacement)
             \o ReplaceFrom(str, pat, replacement, m + Len(pat))

\* content.replace(new RegExp('{{key}}', 'g'), value)
ReplaceToken(content, key, value) == ReplaceFrom(content, Token(key), value, 1)

\* the loop over Object.entries(replacements), in insertion order
RECURSIVE ReplaceAllTokens(_, _)
ReplaceAllTokens(content, replacements) ==
    IF replacements = <<>> THEN content
    ELSE ReplaceAllTokens(
             ReplaceToken(content, Head(replacements).key, Head(replacements).value),
             Tail(replacements))

\* replacePlaceholders(dirPath, replacements): every file below the directory
\* is read, rewritten and written back; a file whose read or write throws
\* (unreadable) is skipped by the catch and keeps its text
replacePlaceholders(st, target, replacements, unreadable) ==
    IF st.err # NoError THEN st
    ELSE IF ~IsDir(st.disk, Path(target, <<>>)) THEN [st EXCEPT !.err = "ENOENT"]
    ELSE [st EXCEPT !.disk =
             [p \in DOMAIN st.disk |->
                 IF p.dir = target /\ st.disk[p].kind = "file" /\ p \notin unreadable
                 THEN File(ReplaceAllTokens(st.disk[p].text, replacements))
                 ELSE st.disk[p]]]

-----------------------------------------------------------------------------
(* generators/fastapi.ts: the derived forms of the project name *)

\* str.replace(/([A-Z])/g, sep + '$1'): sep before every capital letter
RECURSIVE SeparateCapitals(_, _)
SeparateCapitals(str, sep) ==
    IF str = <<>> THEN <<>>
    ELSE (IF Head(str) \in Range(Upper) THEN <<sep, Head(str)>> ELSE <<Head(str)>>)
         \o SeparateCapitals(Tail(str), sep)

\* (...).toLowerCase().replace(/^sep/, '').replace(/[^a-z0-9sep]/g, sep)
LowerSeparated(str, sep) ==
    LET sepd == toLowerCase(SeparateCapitals(str, sep))
        cut == IF sepd # <<>> /\ Head(sepd) = sep THEN Tail(sepd) ELSE sepd
    IN  [i \in 1..Len(cut) |->
            IF cut[i] \in Range(Lower) \cup Range(Digits) \cup {sep}
            THEN cut[i] ELSE sep]

toSnakeCase(str) == LowerSeparated(str, "_")
toKebabCase(str) == LowerSeparated(str, "-")

-----------------------------------------------------------------------------
(* The bundled templates.  The template trees are data of the repository    *)
(* that the sources do not hold: a small tree stands for each, with hidden  *)
(* entries, the directories the generators write into, and text holding     *)
(* recognized and unrecognized tokens.                                      *)

\* the names in the template trees that begin with a dot
DotNames == {".gitignore", ".git", ".env", ".vscode"}

\* basename.startsWith('.')
startsWithDot(basename) == basename \in DotNames

FastAPITemplate ==
    (<<"app">> :> Dir) @@
    (<<"app", "__init__.py">> :> File(<<>>)) @@
    (<<"app", "main.py">> :> File(<<"[template main.py]">>)) @@
    (<<"app", "core">> :> Dir) @@
    (<<"app", "core", "config.py">> :>
        File(<<"[name=]">> \o Token(key_projectName))) @@
    (<<"app", "api">> :> Dir) @@
    (<<"app", "api", "__init__.py">> :>
        File(Token(key_projectNameSnake) \o <<"/">> \o Token(key_projectNameKebab)
             \o <<"/">> \o Token(key_author))) @@
    (<<".gitignore">> :> File(<<"[ignore] ">> \o Token(key_projectName))) @@
    (<<".env">> :> File(<<"[secret]">>)) @@
    (<<".git">> :> Dir) @@
    (<<".git", "config">> :> File(<<"[git config]">>))

ExpressTemplate ==
    (<<"package.json">> :>
        File(<<"[name: ]">> \o Token(key_projectName) \o <<"[by ]">>
             \o Token(key_author))) @@
    (<<"src">> :> Dir) @@
    (<<"src", "index.js">> :> File(<<"[listen] ">> \o Token(key_projectName))) @@
    (<<"README.md">> :>
        File(<<"# ">> \o Token(key_projectNameKebab) \o <<"[db: ]">>
             \o Token(key_projectNameSnake))) @@
    (<<".gitignore">> :> File(<<"node_modules">>)) @@
    (<<".vscode">> :> Dir) @@
    (<<".vscode", "settings.json">> :> File(<<"[editor]">>)) @@
    (<<".vscode", ".gitignore">> :> File(<<"[editor ignore]">>)) @@
    (<<"src", ".env">> :> File(<<"[secret]">>))

\* templateDir of each generator, as path segments
FastAPITemplateDir == <<"python", "fastapi">>
ExpressTemplateDir == <<"js", "express">>

TemplateDirs == {FastAPITemplateDir, ExpressTemplateDir}

\* the tree found at a template directory
TemplateTree(templateDir) ==
    IF templateDir = FastAPITemplateDir THEN FastAPITemplate ELSE ExpressTemplate

-----------------------------------------------------------------------------
(* generators/base.generator.ts: BaseGenerator *)

\* possiblePaths, in search order: 1 the source checkout, 2 the installed
\* package, 3 node_modules/trixo below the working directory
PossiblePaths == <<1, 2, 3>>

\* getTemplatePath: templateDir below the first candidate that exists, or
\* below the first candidate when none does
getTemplatePath(rts, templateDir) ==
    LET found == {i \in 1..Len(PossiblePaths) : rts[PossiblePaths[i]].exists}
        first == IF found = {} THEN 1
                 ELSE CHOOSE i \in found : \A j \in found : i <= j
    IN  [root |-> PossiblePaths[first], dir |-> templateDir]

\* fs.pathExists(templatePath)
templateExists(rts, templatePath) ==
    rts[templatePath.root].exists /\ templatePath.dir \in rts[templatePath.root].templates

\* a filter that skips every hidden entry
copyFilter_NoException(basename) == ~startsWithDot(basename)

\* the filter of copyTemplate: hidden entries are skipped, .gitignore is kept
copyFilter(basename) == ~startsWithDot(basename) \/ basename = ".gitignore"

\* copyTemplate: fs.copy walks the tree and neither copies nor enters an
\* entry the filter rejects (the template directory itself is asked first)
copyTemplate(st, templateDir, target) ==
    IF st.err # NoError THEN st
    ELSE LET tree == TemplateTree(templateDir)
             kept == IF copyFilter(templateDir[Len(templateDir)])
                     THEN {rel \in DOMAIN tree :
                              \A i \in 1..Len(rel) : copyFilter(rel[i])}
                     ELSE {}
         IN  [st EXCEPT !.disk =
                 [p \in {Path(target, rel) : rel \in kept} |-> tree[p.rel]] @@ st.disk]

-----------------------------------------------------------------------------
(* generators/fastapi.ts: FastAPIGenerator's file routines.  st is the      *)
(* [disk, err] pair threaded through the writes, t the target directory.    *)

\* the I/O steps of generate() that the environment can make fail
\* ("readdir": the listing of the target directory by the substitution pass;
\* "substitute": the read or write of each file inside its try block)
Faults == {"none", "ensureDir", "copy", "write", "readdir", "substitute"}

\* a failed operation whose rejection is dropped
ioError_Swallowed(st) == st

\* an operation that the environment fails
ioError(st) == IF st.err # NoError THEN st ELSE [st EXCEPT !.err = "EIO"]

generateRequirementsTxt(st, t, opts) ==
    writeFile(st, Path(t, <<"requirements.txt">>), RequirementsTxt(opts))

generateORMFiles(st, t) ==
    LET s1 == ensureDir(st, Path(t, <<"app", "db">>))
        s2 == writeFile(s1, Path(t, <<"app", "db", "models.py">>),
                        <<"[models.py: Base, BaseModel]">>)
        s3 == writeFile(s2, Path(t, <<"app", "db", "session.py">>),
                        <<"[session.py]", "settings.DATABASE_URL">>)
    IN  writeFile(s3, Path(t, <<"app", "db", "__init__.py">>), <<"[db/__init__.py]">>)

generateMigrationFiles(st, t) ==
    LET s1 == ensureDir(st, Path(t, <<"alembic">>))
        s2 == ensureDir(s1, Path(t, <<"alembic", "versions">>))
        s3 == writeFile(s2, Path(t, <<"alembic.ini">>), <<"[alembic.ini]">>)
        s4 == writeFile(s3, Path(t, <<"alembic", "env.py">>),
                        <<"[env.py: imports]", "from app.core.config import settings",
                          "from app.db.models import Base", "settings.DATABASE_URL",
                          "[env.py: run_migrations]">>)
    IN  writeFile(s4, Path(t, <<"alembic", "script.py.mako">>), <<"[script.py.mako]">>)

generateDockerFiles(st, t) ==
    LET s1 == writeFile(st, Path(t, <<"Dockerfile">>), <<"[Dockerfile]">>)
    IN  writeFile(s1, Path(t, <<".dockerignore">>), <<"[.dockerignore]">>)

generateDockerCompose(st, t, name, opts) ==
    LET hasDb == Truthy(opts, "orm") \/ Truthy(opts, "migrations")
    IN  writeFile(st, Path(t, <<"docker-compose.yml">>),
            <<"[docker-compose.yml: app]">>
            \o (IF hasDb THEN <<"[depends_on: db]", "[db: POSTGRES_DB=]">>
                              \o toSnakeCase(name) \o <<"[volumes]">>
                         ELSE <<>>))

generateTestFiles(st, t) ==
    LET s1 == ensureDir(st, Path(t, <<"tests">>))
        s2 == writeFile(s1, Path(t, <<"pytest.ini">>), <<"[pytest.ini]">>)
        s3 == writeFile(s2, Path(t, <<"tests", "conftest.py">>),
                        <<"[conftest.py]", "from app.main import app">>)
        s4 == writeFile(s3, Path(t, <<"tests", "test_main.py">>),
                        <<"[test_main.py: imports]", "client.get(/)",
                          "client.get(/health)">>)
    IN  writeFile(s4, Path(t, <<"tests", "__init__.py">>), <<>>)

generateEnvFiles(st, t) ==
    writeFile(st, Path(t, <<".env.example">>), <<"[.env.example]">>)

generateProdConfig(st, t) ==
    writeFile(ensureDir(st, Path(t, <<"app", "config">>)),
              Path(t, <<"app", "config", "production.py">>), <<"[production.py]">>)

\* generateDevConfig clearing app/config before it writes (fs.emptyDir for
\* fs.ensureDir)
generateDevConfig_EmptyDir(st, t) ==
    LET configDir == Path(t, <<"app", "config">>)
        inside == {p \in Under(st.disk, t) :
                     Len(p.rel) > 2 /\ SubSeq(p.rel, 1, 2) = configDir.rel}
        emptied == [st EXCEPT !.disk = [p \in DOMAIN st.disk \ inside |-> st.disk[p]]]
    IN  IF st.err # NoError THEN st
        ELSE writeFile(ensureDir(emptied, configDir),
                       Path(t, <<"app", "config", "development.py">>),
                       <<"[development.py]">>)

generateDevConfig(st, t) ==
    writeFile(ensureDir(st, Path(t, <<"app", "config">>)),
              Path(t, <<"app", "config", "development.py">>), <<"[development.py]">>)

generateLinterConfig(st, t) ==
    writeFile(st, Path(t, <<"ruff.toml">>), <<"[ruff.toml]">>)

\* appends the black section to pyproject.toml unless the file has one
generateFormatterConfig(st, t) ==
    LET p == Path(t, <<"pyproject.toml">>)
        pyprojectContent == IF IsFile(st.disk, p) THEN st.disk[p].text ELSE <<>>
    IN  IF st.err # NoError \/ "[tool.black]" \in Range(pyprojectContent) THEN st
        ELSE appendFile(st, p, <<"[tool.black]", "[line-length = 100]">>)

generatePreCommitConfig(st, t) ==
    writeFile(st, Path(t, <<".pre-commit-config.yaml">>), <<"[.pre-commit-config.yaml]">>)

generateLoggingConfig(st, t) ==
    writeFile(ensureDir(st, Path(t, <<"app", "core">>)),
              Path(t, <<"app", "core", "logging.py">>), <<"[logging.py: setup_logging]">>)

\* the health endpoint lives in main.py: nothing is written
generateMonitoring(st, t) == st

generateREADME(st, t, name, opts) ==
    LET feature(k, line) == IF Truthy(opts, k) THEN <<line>> ELSE <<>>
        features == feature("orm", "- SQLAlchemy ORM")
                    \o feature("migrations", "- Alembic migrations")
                    \o feature("docker", "- Docker support")
                    \o feature("dockerCompose", "- Docker Compose")
                    \o feature("tests", "- pytest testing")
                    \o feature("linter", "- Code linting (ruff)")
                    \o feature("formatter", "- Code formatting (black)")
                    \o feature("logging", "- Structured logging")
    IN  writeFile(st, Path(t, <<"README.md">>),
            <<"# ">> \o name \o <<"[README: intro]">>
            \o (IF features # <<>> THEN features ELSE <<"- FastAPI framework">>)
            \o <<"[README: getting started]">>
            \o feature("migrations", "[README: alembic upgrade head]")
            \o <<"[README: running]">>
            \o (IF Truthy(opts, "docker")
                THEN <<"[README: docker build -t ]">> \o toKebabCase(name)
                     \o <<"[README: docker run ]">> \o toKebabCase(name)
                     \o feature("dockerCompose", "[README: docker-compose up]")
                ELSE <<>>)
            \o feature("tests", "[README: pytest]")
            \o <<"[README: structure]">> \o name \o <<"/", "[README: license]">>)

generateMainPy(st, t, name, opts) ==
    writeFile(st, Path(t, <<"app", "main.py">>),
        <<"[main.py: imports]">>
        \o (IF Truthy(opts, "logging") THEN <<"[main.py: setup_logging()]">> ELSE <<>>)
        \o <<"[main.py: app = FastAPI(title=]">> \o name \o <<"[main.py: CORS]">>
        \o (IF Truthy(opts, "monitoring") THEN <<"@app.get(/health)">> ELSE <<>>)
        \o <<"@app.get(/)", "[main.py: Welcome to ]">> \o name
        \o <<"[main.py: routes]">>)

generateConfigPy(st, t, name, opts) ==
    writeFile(st, Path(t, <<"app", "core", "config.py">>),
        <<"[config.py: Settings, PROJECT_NAME=]">> \o name \o <<"[config.py: server]">>
        \o (IF Truthy(opts, "orm") THEN <<"DATABASE_URL">> ELSE <<>>)
        \o <<"[config.py: SECRET_KEY]">>)

\* the replacements FastAPIGenerator resolves, in insertion order
FastAPIReplacements(name) ==
    << [key |-> key_projectName, value |-> name],
       [key |-> key_projectNameSnake, value |-> toSnakeCase(name)],
       [key |-> key_projectNameKebab, value |-> toKebabCase(name)] >>

\* the replacements ExpressGenerator resolves
ExpressReplacements(name) == << [key |-> key_projectName, value |-> name] >>

\* every file below the target that a failed substitution leaves unread
Unreadable(st, t, flt) ==
    IF flt = "substitute" THEN {p \in Under(st.disk, t) : st.disk[p].kind = "file"}
    ELSE {}

-----------------------------------------------------------------------------
(* The generator classes *)

FastAPIGenerator == "FastAPIGenerator"
ExpressGenerator == "ExpressGenerator"
NoGenerator == "none"

GeneratorClasses == {FastAPIGenerator, ExpressGenerator}

templateDirOf(gen) ==
    IF gen = FastAPIGenerator THEN FastAPITemplateDir ELSE ExpressTemplateDir

\* getAvailableOptions(): FastAPI lists the catalog's keys in declaration
\* order, Express its own four
getAvailableOptions(gen) ==
    IF gen = FastAPIGenerator
    THEN [i \in 1..Len(getPythonOptions) |-> getPythonOptions[i].key]
    ELSE <<"orm", "migrations", "docker", "tests">>

\* FastAPIGenerator.generateOptionalFiles; flt is the I/O step that fails.
\* Each routine runs when its option is truthy (if (opts.k) await ...).
FastAPIOptionalFiles(st, t, name, opts, flt) ==
    LET first(s) == IF flt = "write" THEN ioError(s)
                    ELSE generateRequirementsTxt(s, t, opts)
        orm(s) == IF Truthy(opts, "orm") THEN generateORMFiles(s, t) ELSE s
        migrations(s) ==
            IF Truthy(opts, "migrations") THEN generateMigrationFiles(s, t) ELSE s
        docker(s) == IF Truthy(opts, "docker") THEN generateDockerFiles(s, t) ELSE s
        dockerCompose(s) ==
            IF Truthy(opts, "dockerCompose") THEN generateDockerCompose(s, t, name, opts)
            ELSE s
        tests(s) == IF Truthy(opts, "tests") THEN generateTestFiles(s, t) ELSE s
        envFiles(s) == IF Truthy(opts, "envFiles") THEN generateEnvFiles(s, t) ELSE s
        prodConfig(s) == IF Truthy(opts, "prodConfig") THEN generateProdConfig(s, t) ELSE s
        devConfig(s) == IF Truthy(opts, "devConfig") THEN generateDevConfig(s, t) ELSE s
        linter(s) == IF Truthy(opts, "linter") THEN generateLinterConfig(s, t) ELSE s
        formatter(s) ==
            IF Truthy(opts, "formatter") THEN generateFormatterConfig(s, t) ELSE s
        preCommit(s) ==
            IF Truthy(opts, "preCommit") THEN generatePreCommitConfig(s, t) ELSE s
        logging(s) == IF Truthy(opts, "logging") THEN generateLoggingConfig(s, t) ELSE s
        monitoring(s) == IF Truthy(opts, "monitoring") THEN generateMonitoring(s, t) ELSE s
        readme(s) == IF Truthy(opts, "readme") THEN generateREADME(s, t, name, opts) ELSE s
        substitute(s) ==
            IF flt = "readdir" THEN ioError(s)
            ELSE replacePlaceholders(s, t, FastAPIReplacements(name),
                                     Unreadable(s, t, flt))
        s1 == first(st)
        s2 == orm(s1)
        s3 == migrations(s2)
        s4 == docker(s3)
        s5 == dockerCompose(s4)
        s6 == tests(s5)
        s7 == envFiles(s6)
        s8 == prodConfig(s7)
        s9 == devConfig(s8)
        s10 == linter(s9)
        s11 == formatter(s10)
        s12 == preCommit(s11)
        s13 == logging(s12)
        s14 == monitoring(s13)
        s15 == readme(s14)
        s16 == generateMainPy(s15, t, name, opts)
        s17 == generateConfigPy(s16, t, name, opts)
    IN  substitute(s17)

\* ExpressGenerator.generateOptionalFiles: the four option branches are
\* empty; only the substitution pass runs
ExpressOptionalFiles(st, t, name, opts, flt) ==
    IF flt = "readdir" THEN ioError(st)
    ELSE replacePlaceholders(st, t, ExpressReplacements(name), Unreadable(st, t, flt))

generateOptionalFiles(gen, st, t, name, opts, flt) ==
    IF gen = FastAPIGenerator THEN FastAPIOptionalFiles(st, t, name, opts, flt)
    ELSE ExpressOptionalFiles(st, t, name, opts, flt)

\* the request's options, or the empty map for undefined (options.options || {},
\* options.options?.k)
NoOptions == << >>

\* base.generator.ts:61-69: the target directory is created, the template
\* copied, the optional files written
scaffold(gen, d, request, flt) ==
    LET t == request.targetPath
        s0 == [disk |-> d, err |-> NoError]
        s1 == IF flt = "ensureDir" THEN ioError(s0) ELSE ensureDir(s0, Path(t, <<>>))
        s2 == IF flt = "copy" THEN ioError(s1) ELSE copyTemplate(s1, templateDirOf(gen), t)
    IN  generateOptionalFiles(gen, s2, t, request.projectName, request.options, flt)

\* generate() without the check of the target directory
generate_NoTargetCheck(gen, d, rts, request, flt) ==
    IF ~templateExists(rts, getTemplatePath(rts, templateDirOf(gen)))
    THEN [disk |-> d, err |-> "Template not found"]
    ELSE scaffold(gen, d, request, flt)

\* generate() creating the target directory before it checks anything
generate_CreateFirst(gen, d, rts, request, flt) ==
    LET created == ensureDir([disk |-> d, err |-> NoError],
                             Path(request.targetPath, <<>>)).disk
    IN  IF ~templateExists(rts, getTemplatePath(rts, templateDirOf(gen)))
        THEN [disk |-> created, err |-> "Template not found"]
        ELSE IF pathExists(d, Path(request.targetPath, <<>>))
        THEN [disk |-> created, err |-> "Directory already exists"]
        ELSE scaffold(gen, d, request, flt)

\* generate() removing what it wrote when a step after the checks fails
generate_RollBack(gen, d, rts, request, flt) ==
    IF ~templateExists(rts, getTemplatePath(rts, templateDirOf(gen)))
    THEN [disk |-> d, err |-> "Template not found"]
    ELSE IF pathExists(d, Path(request.targetPath, <<>>))
    THEN [disk |-> d, err |-> "Directory already exists"]
    ELSE LET out == scaffold(gen, d, request, flt)
         IN  IF out.err # NoError THEN [disk |-> d, err |-> out.err] ELSE out

\* BaseGenerator.generate: the disk it leaves and the error it throws
generate(gen, d, rts, request, flt) ==
    IF ~templateExists(rts, getTemplatePath(rts, templateDirOf(gen)))
    THEN [disk |-> d, err |-> "Template not found"]
    ELSE IF pathExists(d, Path(request.targetPath, <<>>))
    THEN [disk |-> d, err |-> "Directory already exists"]
    ELSE scaffold(gen, d, request, flt)

-----------------------------------------------------------------------------
(* generators/registry.ts *)

\* the map's key for a pair; the language and framework tags hold no colon,
\* so the pair stands for the joined string
KeyOf(lang, fw) == <<lang, fw>>

\* the registrations made when the module loads
InitialGeneratorMap ==
    (KeyOf("python", "fastapi") :> FastAPIGenerator) @@
    (KeyOf("js", "express") :> ExpressGenerator)

\* a lookup that looks at the language alone
hasGenerator_KnownLanguage(map, lang, fw) == \E key \in DOMAIN map : key[1] = lang

hasGenerator(map, lang, fw) == KeyOf(lang, fw) \in DOMAIN map

\* getGenerator: the class to construct, or NoGenerator where it throws
getGenerator(map, lang, fw) ==
    IF KeyOf(lang, fw) \in DOMAIN map THEN map[KeyOf(lang, fw)] ELSE NoGenerator

\* a registration that keeps the constructor a pair already has
registerGenerator_KeepFirst(map, lang, fw, GeneratorClass) ==
    map @@ (KeyOf(lang, fw) :> GeneratorClass)

\* registerGenerator: generatorMap.set(key, GeneratorClass)
registerGenerator(map, lang, fw, GeneratorClass) ==
    (KeyOf(lang, fw) :> GeneratorClass) @@ map

-----------------------------------------------------------------------------
(* config/languages.ts *)

\* LANGUAGE_CONFIGS: each language's frameworks, in declaration order
LANGUAGE_CONFIGS ==
    << [value |-> "python", frameworks |-> <<"fastapi", "django", "flask">>],
       [value |-> "js", frameworks |-> <<"express">>],
       [value |-> "go", frameworks |-> <<"gin">>],
       [value |-> "rust", frameworks |-> <<"default">>] >>

getLanguageChoices == {LANGUAGE_CONFIGS[i].value : i \in 1..Len(LANGUAGE_CONFIGS)}

getFrameworkChoices(lang) ==
    LET config == LANGUAGE_CONFIGS[CHOOSE i \in 1..Len(LANGUAGE_CONFIGS) :
                                       LANGUAGE_CONFIGS[i].value = lang]
    IN  Range(config.frameworks)

-----------------------------------------------------------------------------
(* utils/index.ts: project names *)

\* the characters of /[<>:"/\\|?*\x00-\x1f]/ that the model's alphabet holds;
\* the line feed and the tab stand for the control characters
InvalidChars == {"<", ">", ":", "/", "|", "?", "*", "\n", "\t"}

\* String.prototype.trim removes white space
WhiteSpace == {" ", "\n", "\t"}

\* !name || !name.trim()
IsBlank(name) == \A i \in 1..Len(name) : name[i] \in WhiteSpace

reservedNames ==
    { <<"C", "O", "N">>, <<"P", "R", "N">>, <<"A", "U", "X">>, <<"N", "U", "L">> }
    \cup { <<"C", "O", "M", Digits[n + 1]>> : n \in 1..9 }
    \cup { <<"L", "P", "T", Digits[n + 1]>> : n \in 1..9 }

\* a validator without the reserved-name test
validateProjectName_NoReserved(name) ==
    /\ ~IsBlank(name)
    /\ \A i \in 1..Len(name) : name[i] \notin InvalidChars

validateProjectName(name) ==
    /\ ~IsBlank(name)
    /\ \A i \in 1..Len(name) : name[i] \notin InvalidChars
    /\ toUpperCase(name) \notin reservedNames

\* a message function that compares with the reserved names as typed
getProjectNameError_CaseSensitive(name) ==
    IF IsBlank(name) THEN "Project name cannot be empty"
    ELSE IF \E i \in 1..Len(name) : name[i] \in InvalidChars
    THEN "Project name contains invalid characters"
    ELSE IF name \in reservedNames THEN "Project name is a reserved name"
    ELSE "null"

\* the message, or "null"
getProjectNameError(name) ==
    IF IsBlank(name) THEN "Project name cannot be empty"
    ELSE IF \E i \in 1..Len(name) : name[i] \in InvalidChars
    THEN "Project name contains invalid characters"
    ELSE IF toUpperCase(name) \in reservedNames THEN "Project name is a reserved name"
    ELSE "null"

-----------------------------------------------------------------------------
(* cli.ts: the orchestrator, one run of program.action *)

\* the project names the runs are given: none, a plain one with a capital,
\* one of dollar patterns, and three that validateProjectName rejects
ArgNames ==
    { <<>>, <<"a", "B">>, <<"$", "&">>, <<"a", ":">>, <<"c", "o", "n">>, <<" ">> }

\* what the name prompt can return: inquirer asks again until its validate
\* callback, getProjectNameError, accepts the input
PromptNames == {n \in ArgNames : getProjectNameError(n) = "null"}

\* the candidate template locations: whether each exists and which template
\* directories it holds
NoRoot == [exists |-> FALSE, templates |-> {}]
BareRoot == [exists |-> TRUE, templates |-> {}]
FullRoot == [exists |-> TRUE, templates |-> TemplateDirs]

RootLayouts ==
    { <<FullRoot, NoRoot, NoRoot>>,     \* run from the source checkout
      <<NoRoot, FullRoot, NoRoot>>,     \* the installed package
      <<NoRoot, NoRoot, FullRoot>>,     \* installed in the project
      <<BareRoot, FullRoot, NoRoot>>,   \* an unrelated templates directory first
      <<NoRoot, NoRoot, NoRoot>> }      \* no templates anywhere

\* a working directory where every name is taken by a directory of the user's
UserDisk ==
    [p \in UNION { {Path(n, <<>>), Path(n, <<"notes.txt">>)} : n \in ArgNames \ {<<>>} }
       |-> IF p.rel = <<>> THEN Dir ELSE File(<<"[user data]">>)]

EmptyDisk == << >>

InitialDisks == {EmptyDisk, UserDisk}

\* a checkbox list that shows the whole Python catalog
choices_WholeCatalog(availableOptions) ==
    [i \in 1..Len(getPythonOptions) |-> [value |-> getPythonOptions[i].key]]

\* promptOptions: one checkbox per available option, in the order of the
\* list (availableOptions.map); the label is for display only
choices(availableOptions) ==
    [i \in 1..Len(availableOptions) |-> [value |-> availableOptions[i]]]

\* the options prompt: the boxes ticked become true entries
TickedOptions(available) ==
    {[k \in ticked |-> TRUE] :
        ticked \in {S \in SUBSET {c.value : c \in Range(choices(available))} :
                        Cardinality(S) <= MaxSelected}}

\* the GeneratorOptions that program.action builds: the target is the project
\* name below the working directory, and an empty options map goes as undefined
RequestFor(name, opts) ==
    [projectName |-> name, targetPath |-> name,
     options |-> IF DOMAIN opts # {} THEN opts ELSE NoOptions]

Request == RequestFor(projectName, options)

Init ==
    /\ argName \in ArgNames
    /\ pc = "CollectName"
    /\ projectName = <<>>
    /\ language = "none"
    /\ framework = "none"
    /\ options = NoOptions
    /\ generator = NoGenerator
    /\ generatorMap = InitialGeneratorMap
    /\ roots \in RootLayouts
    /\ disk \in InitialDisks
    /\ error = NoError
    /\ exitCode = "none"
    /\ fault = "none"

\* cli.ts:16, the left operand: a non-empty argument is the project name
UseArgument ==
    /\ pc = "CollectName"
    /\ argName # <<>>
    /\ projectName' = argName
    /\ pc' = "CollectLanguage"
    /\ UNCHANGED <<argName, language, framework, options, generator, generatorMap,
                   roots, disk, error, exitCode, fault>>

\* cli.ts:16, the right operand: promptProjectName()
PromptProjectName ==
    /\ pc = "CollectName"
    /\ argName = <<>>
    /\ \E name \in PromptNames : projectName' = name
    /\ pc' = "CollectLanguage"
    /\ UNCHANGED <<argName, language, framework, options, generator, generatorMap,
                   roots, disk, error, exitCode, fault>>

\* cli.ts:20
PromptLanguage ==
    /\ pc = "CollectLanguage"
    /\ \E lang \in getLanguageChoices : language' = lang
    /\ pc' = "CollectFramework"
    /\ UNCHANGED <<argName, projectName, framework, options, generator, generatorMap,
                   roots, disk, error, exitCode, fault>>

\* cli.ts:21
PromptFramework ==
    /\ pc = "CollectFramework"
    /\ \E fw \in getFrameworkChoices(language) : framework' = fw
    /\ pc' = "ResolveGenerator"
    /\ UNCHANGED <<argName, projectName, language, options, generator, generatorMap,
                   roots, disk, error, exitCode, fault>>

\* cli.ts:24-31: no generator for the pair, process.exit(1)
GeneratorNotFound ==
    /\ pc = "ResolveGenerator"
    /\ ~hasGenerator(generatorMap, language, framework)
    /\ pc' = "Failed"
    /\ error' = "Generator not found"
    /\ exitCode' = "nonzero"
    /\ UNCHANGED <<argName, projectName, language, framework, options, generator,
                   generatorMap, roots, disk, fault>>

\* cli.ts:34-35
ResolveGenerator ==
    /\ pc = "ResolveGenerator"
    /\ hasGenerator(generatorMap, language, framework)
    /\ generator' = getGenerator(generatorMap, language, framework)
    /\ pc' = "CollectOptions"
    /\ UNCHANGED <<argName, projectName, language, framework, options, generatorMap,
                   roots, disk, error, exitCode, fault>>

\* cli.ts:39-41: promptOptions over the generator's available options
PromptOptions ==
    /\ pc = "CollectOptions"
    /\ IF Len(getAvailableOptions(generator)) > 0
       THEN \E ticked \in TickedOptions(getAvailableOptions(generator)) :
                options' = ticked
       ELSE options' = NoOptions
    /\ pc' = "Generate"
    /\ UNCHANGED <<argName, projectName, language, framework, generator, generatorMap,
                   roots, disk, error, exitCode, fault>>

\* a rejected prompt that sends the run back to the name
PromptAborted_AskAgain ==
    /\ pc \in {"CollectName", "CollectLanguage", "CollectFramework", "CollectOptions"}
    /\ pc' = "CollectName"
    /\ UNCHANGED <<argName, projectName, language, framework, options, generator,
                   generatorMap, roots, disk, error, exitCode, fault>>

\* a prompt rejects (the input stream closes): the catch block, process.exit(1)
PromptAborted ==
    /\ pc \in {"CollectName", "CollectLanguage", "CollectFramework", "CollectOptions"}
    /\ pc = "CollectName" => argName = <<>>
    /\ pc' = "Failed"
    /\ error' = "prompt aborted"
    /\ exitCode' = "nonzero"
    /\ UNCHANGED <<argName, projectName, language, framework, options, generator,
                   generatorMap, roots, disk, fault>>

\* generate() runs and the success message is printed whatever it threw
Generate_ReportSuccess ==
    /\ pc = "Generate"
    /\ \E flt \in Faults :
          LET out == generate(generator, disk, roots, Request, flt)
          IN  /\ disk' = out.disk
              /\ error' = out.err
              /\ fault' = flt
    /\ pc' = "Done"
    /\ exitCode' = "zero"
    /\ UNCHANGED <<argName, projectName, language, framework, options, generator,
                   generatorMap, roots>>

\* cli.ts:47-63: generate() runs; the success message and a normal end, or
\* the catch block and process.exit(1)
Generate ==
    /\ pc = "Generate"
    /\ \E flt \in Faults :
          LET out == generate(generator, disk, roots, Request, flt)
          IN  /\ disk' = out.disk
              /\ error' = out.err
              /\ fault' = flt
              /\ pc' = IF out.err = NoError THEN "Done" ELSE "Failed"
              /\ exitCode' = IF out.err = NoError THEN "zero" ELSE "nonzero"
    /\ UNCHANGED <<argName, projectName, language, framework, options, generator,
                   generatorMap, roots>>

Next ==
    \/ UseArgument
    \/ PromptProjectName
    \/ PromptLanguage
    \/ PromptFramework
    \/ GeneratorNotFound
    \/ ResolveGenerator
    \/ PromptOptions
    \/ PromptAborted
    \/ Generate

Spec == Init /\ [][Next]_vars

-----------------------------------------------------------------------------
(* generate() as a function of the options map: one call, then further      *)
(* calls into a fresh working directory, each with one more option enabled  *)

\* the source checkout: the first candidate location holds the templates
CheckoutRoots == <<FullRoot, NoRoot, NoRoot>>

\* the project name of the compared calls
PlainName == <<"a", "B">>

\* the keys a caller turns off explicitly: the two that generateRequirementsTxt
\* compares with false (fastapi.ts:243, 264), and docker
ExplicitKeys == {"docker", "envFiles", "tests"}

\* the options maps a caller can pass with nothing enabled: some keys false,
\* the others absent
ExplicitlyOff(available) ==
    {[k \in off |-> FALSE] :
        off \in {S \in SUBSET (Range(available) \cap ExplicitKeys) :
                    Cardinality(S) <= MaxExplicit}}

OptInit ==
    /\ argName = PlainName
    /\ pc = "Generate"
    /\ projectName = PlainName
    /\ \E key \in DOMAIN InitialGeneratorMap :
          /\ language = key[1]
          /\ framework = key[2]
          /\ generator = getGenerator(InitialGeneratorMap, key[1], key[2])
    /\ options \in ExplicitlyOff(getAvailableOptions(generator))
    /\ generatorMap = InitialGeneratorMap
    /\ roots = CheckoutRoots
    /\ disk = EmptyDisk
    /\ error = NoError
    /\ exitCode = "none"
    /\ fault = "none"

\* generate() once more, into a fresh working directory, with one more option
\* enabled and every other entry of the map as it was
EnableOption ==
    /\ pc = "Done"
    /\ Cardinality(Enabled(options)) < MaxEnabled
    /\ \E k \in Range(getAvailableOptions(generator)) \ Enabled(options) :
          LET opts == (k :> TRUE) @@ options
              out == generate(generator, EmptyDisk, roots,
                              RequestFor(projectName, opts), "none")
          IN  /\ options' = opts
              /\ disk' = out.disk
              /\ error' = out.err
              /\ fault' = "none"
    /\ UNCHANGED <<argName, pc, projectName, language, framework, generator,
                   generatorMap, roots, exitCode>>

OptNext ==
    \/ Generate
    \/ EnableOption

OptSpec == OptInit /\ [][OptNext]_vars

-----------------------------------------------------------------------------
(* generate() as a function of the project name *)

\* the characters the names are drawn from: a letter, a capital, the dollar
\* sign and the two characters that make a replacement pattern after it
NameAlphabet == {"a", "B", "$", "&", "'"}

\* the names of a length over the alphabet
NamesOfLen(n) == [1..n -> NameAlphabet]

\* the names validateProjectName accepts, up to the longest drawn
ValidNames ==
    {name \in UNION {NamesOfLen(n) : n \in 1..MaxNameLen} : validateProjectName(name)}

NameInit ==
    /\ argName \in ValidNames
    /\ pc = "Generate"
    /\ projectName = argName
    /\ \E key \in DOMAIN InitialGeneratorMap :
          /\ language = key[1]
          /\ framework = key[2]
          /\ generator = getGenerator(InitialGeneratorMap, key[1], key[2])
    /\ options = NoOptions
    /\ generatorMap = InitialGeneratorMap
    /\ roots = CheckoutRoots
    /\ disk = EmptyDisk
    /\ error = NoError
    /\ exitCode = "none"
    /\ fault = "none"

NameNext == Generate

NameSpec == NameInit /\ [][NameNext]_vars

-----------------------------------------------------------------------------
(* Properties of the orchestrator run (Spec) *)

\* the step in which program.action calls generate()
GenerateStep == pc = "Generate" /\ pc' # "Generate"

\* the target directory of the run
Target == Path(projectName, <<>>)

\* C1: generate() is invoked only with a project name that
\* validateProjectName accepts, wherever the name came from.
C1_GenerateOnlyWithValidName ==
    pc = "Generate" => validateProjectName(projectName)

\* A name from the prompt has passed the prompt's validate callback.
C1_PromptedNameIsValid ==
    (pc = "Generate" /\ argName = <<>>) => validateProjectName(projectName)

\* C2 as stated: generate() called when the target path exists fails with
\* the target-exists error, whatever the options.
C2_ExistingTargetFailsWithTargetExists ==
    [][(GenerateStep /\ pathExists(disk, Target))
          => error' = "Directory already exists"]_vars

\* C2 as amended: generate() called when the target path exists fails,
\* whatever the options: with the target-exists error when the template
\* directory exists, with the template-missing error when it does not.
C2_ExistingTargetFails ==
    [][(GenerateStep /\ pathExists(disk, Target))
          => /\ pc' = "Failed"
             /\ error' = IF templateExists(roots,
                                getTemplatePath(roots, templateDirOf(generator)))
                          THEN "Directory already exists"
                          ELSE "Template not found"]_vars

\* a run that chose an option and was refused for the existing target
C2_Witness ==
    /\ pc = "Failed"
    /\ error = "Directory already exists"
    /\ Enabled(options) # {}

\* C3: when generate() fails a precondition (template missing, target
\* exists), nothing on the file system is created, changed or deleted.
C3_FailedPreconditionLeavesDiskAlone ==
    [][(GenerateStep /\ error' \in {"Template not found", "Directory already exists"})
          => disk' = disk]_vars

\* a refused run with the user's data still at the target
C3_Witness ==
    /\ pc = "Failed"
    /\ error \in {"Template not found", "Directory already exists"}
    /\ IsFile(disk, Path(projectName, <<"notes.txt">>))
    /\ disk[Path(projectName, <<"notes.txt">>)].text = <<"[user data]">>

-----------------------------------------------------------------------------
(* Properties of generate() over the options map (OptSpec) *)

\* the paths present below the target directory, relative to it
FilePaths(d, name) == {p.rel : p \in Under(d, name)}

\* the text of the generated requirements.txt
Manifest == disk[Path(projectName, <<"requirements.txt">>)].text

\* the packages of the base requirements
BasePackages == {PackageName(l) : l \in Range(BaseRequirements)}

\* the packages an option declares in the catalog
DeclaredPackages(k) == Range(getPythonOption(k).dependencies)

\* a FastAPI project has been generated
FastAPIDone == pc = "Done" /\ generator = FastAPIGenerator

\* C4: for FastAPI option sets A and B, B being A with more options enabled
\* (same project name and template), every file path present after
\* generating with A is present after generating with B.
C4_FilePathsMonotone ==
    [][(FastAPIDone /\ pc' = "Done" /\ Enabled(options) \subseteq Enabled(options'))
          => FilePaths(disk, projectName) \subseteq FilePaths(disk', projectName)]_vars

\* both configuration modules, written into the one directory they share
C4_Witness ==
    /\ FastAPIDone
    /\ Enabled(options) = {"prodConfig", "devConfig"}
    /\ {<<"app", "config", "production.py">>, <<"app", "config", "development.py">>}
          \subseteq FilePaths(disk, projectName)

C6_OrmAndTestsManifest ==
    (FastAPIDone /\ Enabled(options) = {"orm", "tests"})
        => PackageNames(Manifest) =
               BasePackages \cup DeclaredPackages("orm") \cup DeclaredPackages("tests")

\* C7: for every option set, the lines of requirements.txt are in strictly
\* ascending order (sorted, no line twice) and hold every base requirement
\* and every package that an enabled option declares.
C7_ManifestSortedAndComplete ==
    FastAPIDone =>
        LET lines == SplitLines(Manifest)
        IN  /\ \A i \in 1..(Len(lines) - 1) : StrLess(lines[i], lines[i + 1])
            /\ Range(BaseRequirements) \subseteq Range(lines)
            /\ \A k \in Enabled(options) :
                   DeclaredPackages(k) \subseteq PackageNames(Manifest)

\* two options that declare packages, pushed after the base requirements and
\* sorted in before them
C7_Witness ==
    /\ FastAPIDone
    /\ Enabled(options) = {"formatter", "logging"}
    /\ PackageName(Head(SplitLines(Manifest))) = dep_black
    /\ dep_structlog \in PackageNames(Manifest)

\* C8: for FastAPI and for Express, generating with tests enabled and docker
\* not enabled gives a tests directory and no Dockerfile; with both enabled,
\* the tests directory and the Dockerfile.
C8_TestsAndDocker ==
    (pc = "Done" /\ Truthy(options, "tests"))
        => /\ IsDir(disk, Path(projectName, <<"tests">>))
           /\ IsFile(disk, Path(projectName, <<"Dockerfile">>))
                  <=> Truthy(options, "docker")

\* What C8 says holds of the FastAPI generator.
C8_FastAPITestsAndDocker ==
    (FastAPIDone /\ Truthy(options, "tests"))
        => /\ IsDir(disk, Path(projectName, <<"tests">>))
           /\ IsFile(disk, Path(projectName, <<"Dockerfile">>))
                  <=> Truthy(options, "docker")

-----------------------------------------------------------------------------
(* Properties of the substitution pass (NameSpec) *)

\* the text with every occurrence of a token replaced by the value as it is
\* written, no character of it read as a pattern
RECURSIVE VerbatimFrom(_, _, _, _)
VerbatimFrom(str, token, value, i) ==
    IF i > Len(str) THEN <<>>
    ELSE IF MatchesAt(str, token, i)
    THEN value \o VerbatimFrom(str, token, value, i + Len(token))
    ELSE <<str[i]>> \o VerbatimFrom(str, token, value, i + 1)

\* the template files that reach the target and that no routine writes over
CopiedFiles ==
    {rel \in DOMAIN TemplateTree(templateDirOf(generator)) :
        /\ TemplateTree(templateDirOf(generator))[rel].kind = "file"
        /\ IsFile(disk, Path(projectName, rel))
        /\ rel \notin {<<"app", "main.py">>, <<"app", "core", "config.py">>}}

\* generation ended well and every file was read and written back
Substituted == pc = "Done" /\ fault = "none"

\* C9: after a successful generation with a valid project name, no
\* recognized token is left in any file below the target directory, and a
\* token whose key is not recognized is still where the template had it.
C9_NoRecognizedTokenRemains ==
    Substituted =>
        /\ \A p \in Under(disk, projectName) :
               disk[p].kind = "file" =>
                   \A token \in RecognizedTokens : ~includes(disk[p].text, token)
        /\ \A rel \in CopiedFiles :
               includes(TemplateTree(templateDirOf(generator))[rel].text, Token(key_author))
                   => includes(disk[Path(projectName, rel)].text, Token(key_author))

\* C10: for every valid project name N, each occurrence of the projectName
\* token is replaced by exactly N, character for character.
C10_ProjectNameVerbatim ==
    Substituted =>
        \A rel \in CopiedFiles :
            LET source == TemplateTree(templateDirOf(generator))[rel].text
            IN  (\A token \in RecognizedTokens \ {Token(key_projectName)} :
                    ~includes(source, token))
                => disk[Path(projectName, rel)].text
                       = VerbatimFrom(source, Token(key_projectName), projectName, 1)

\* the three derived forms of the project name: as given, lowercase with
\* underscores, lowercase with hyphens
ThreeForms(name) ==
    << [key |-> key_projectName, value |-> name],
       [key |-> key_projectNameSnake, value |-> toSnakeCase(name)],
       [key |-> key_projectNameKebab, value |-> toKebabCase(name)] >>

\* C11: for every registered generator, the substitution pass runs after the
\* files are written and resolves the tokens of all three forms of the
\* project name: every copied file ends as its template text with the three
\* tokens replaced.
C11_ThreeFormsResolved ==
    Substituted =>
        \A rel \in CopiedFiles :
            disk[Path(projectName, rel)].text
                = ReplaceAllTokens(TemplateTree(templateDirOf(generator))[rel].text,
                                   ThreeForms(projectName))

\* What C11 says holds of the FastAPI generator.
C11_FastAPIThreeFormsResolved ==
    (Substituted /\ generator = FastAPIGenerator) =>
        \A rel \in CopiedFiles :
            disk[Path(projectName, rel)].text
                = ReplaceAllTokens(TemplateTree(templateDirOf(generator))[rel].text,
                                   ThreeForms(projectName))

-----------------------------------------------------------------------------
(* Properties of the orchestrator run (Spec), continued *)

\* generate() passed its two checks and reached the I/O step that fails
FaultStruck ==
    /\ pc \in {"Done", "Failed"}
    /\ fault # "none"
    /\ error \notin {"Template not found", "Directory already exists"}
    /\ fault = "write" => generator = FastAPIGenerator

\* C12 as stated: any I/O failure during the copy, a conditional write or
\* the substitution pass, a failed read or write of a single file in the
\* pass included, makes generate() fail and the run end in Failed.
C12_AnyIOFailureFails ==
    FaultStruck => (pc = "Failed" /\ error # NoError)

\* C12 as amended: a failure while the target directory is created, the
\* template copied, a conditional file written or the target directory
\* listed by the pass makes generate() fail with the underlying error and the
\* run end in Failed with a non-zero status; a failed read or write of a
\* single file during the pass is skipped, and the run ends in Done.
C12_IOFailureFailsUnlessSkipped ==
    FaultStruck =>
        IF fault = "substitute"
        THEN pc = "Done" /\ error = NoError
        ELSE pc = "Failed" /\ error = "EIO" /\ exitCode = "nonzero"

\* the copy failed after the target directory was made: the run has failed
\* and the directory stays
C12_Witness ==
    /\ pc = "Failed"
    /\ fault = "copy"
    /\ error = "EIO"
    /\ IsDir(disk, Target)

-----------------------------------------------------------------------------
(* The registry under calls of its three functions, in any order.  language, *)
(* framework and generator hold the last call's pair and the class it was   *)
(* given or constructed; pc holds the last call and, for hasGenerator, its  *)
(* result.                                                                  *)

\* the (language, framework) pairs of the language configurations
Pairs ==
    UNION { {<<LANGUAGE_CONFIGS[i].value, fw>> : fw \in Range(LANGUAGE_CONFIGS[i].frameworks)}
              : i \in 1..Len(LANGUAGE_CONFIGS) }

RegInit ==
    /\ argName = <<>>
    /\ pc = "Loaded"
    /\ projectName = <<>>
    /\ language = "none"
    /\ framework = "none"
    /\ options = NoOptions
    /\ generator = NoGenerator
    /\ generatorMap = InitialGeneratorMap
    /\ roots = CheckoutRoots
    /\ disk = EmptyDisk
    /\ error = NoError
    /\ exitCode = "none"
    /\ fault = "none"

\* registry.ts:46-53
CallRegisterGenerator ==
    /\ \E pair \in Pairs, GeneratorClass \in GeneratorClasses :
          /\ generatorMap' = registerGenerator(generatorMap, pair[1], pair[2],
                                               GeneratorClass)
          /\ language' = pair[1]
          /\ framework' = pair[2]
          /\ generator' = GeneratorClass
    /\ pc' = "Registered"
    /\ error' = NoError
    /\ UNCHANGED <<argName, projectName, options, roots, disk, exitCode, fault>>

\* registry.ts:24-33: the instance's class, or the throw
CallGetGenerator ==
    /\ \E pair \in Pairs :
          /\ language' = pair[1]
          /\ framework' = pair[2]
          /\ generator' = getGenerator(generatorMap, pair[1], pair[2])
          /\ error' = IF getGenerator(generatorMap, pair[1], pair[2]) = NoGenerator
                      THEN "No generator found" ELSE NoError
    /\ pc' = "Got"
    /\ UNCHANGED <<argName, projectName, options, generatorMap, roots, disk,
                   exitCode, fault>>

\* registry.ts:38-41: nothing is constructed
CallHasGenerator ==
    /\ \E pair \in Pairs :
          /\ language' = pair[1]
          /\ framework' = pair[2]
          /\ pc' = IF hasGenerator(generatorMap, pair[1], pair[2])
                   THEN "HasTrue" ELSE "HasFalse"
    /\ generator' = NoGenerator
    /\ error' = NoError
    /\ UNCHANGED <<argName, projectName, options, generatorMap, roots, disk,
                   exitCode, fault>>

RegNext ==
    \/ CallRegisterGenerator
    \/ CallGetGenerator
    \/ CallHasGenerator

RegSpec == RegInit /\ [][RegNext]_vars

\* C13: registering a pair, registered before or not, raises no error and
\* makes getGenerator construct the class just registered for the pair, and
\* every other pair keeps the constructor it had; so after any sequence of
\* registrations each pair constructs the class registered for it last.
C13_LastRegistrationWins ==
    [][pc' = "Registered"
          => /\ error' = NoError
             /\ getGenerator(generatorMap', language', framework') = generator'
             /\ \A pair \in Pairs \ {<<language', framework'>>} :
                    getGenerator(generatorMap', pair[1], pair[2])
                        = getGenerator(generatorMap, pair[1], pair[2])]_vars

\* the FastAPI pair registered over with the Express class
C13_Witness ==
    /\ pc = "Registered"
    /\ language = "python" /\ framework = "fastapi"
    /\ generator = ExpressGenerator
    /\ getGenerator(generatorMap, "python", "fastapi") = ExpressGenerator
    /\ getGenerator(generatorMap, "js", "express") = ExpressGenerator

\* C14: in every registry state getGenerator throws for a pair exactly when
\* no constructor is registered for it, which is exactly when hasGenerator
\* returns false; hasGenerator constructs nothing and leaves the registry as
\* it was.
C14_NotFoundIffNotRegistered ==
    [][/\ pc' = "Got" =>
            /\ (error' = "No generator found")
                   <=> KeyOf(language', framework') \notin DOMAIN generatorMap
            /\ (error' = "No generator found")
                   <=> ~hasGenerator(generatorMap, language', framework')
            /\ error' = NoError => generator' = generatorMap[KeyOf(language', framework')]
       /\ pc' \in {"HasTrue", "HasFalse"} =>
            /\ generatorMap' = generatorMap
            /\ generator' = NoGenerator
            /\ (pc' = "HasFalse")
                   <=> getGenerator(generatorMap, language', framework') = NoGenerator]_vars

\* getGenerator has thrown for a pair of a language that has a generator for
\* another framework
C14_Witness ==
    /\ pc = "Got"
    /\ error = "No generator found"
    /\ language = "python" /\ framework = "flask"
    /\ hasGenerator(generatorMap, "python", "fastapi")
    /\ ~hasGenerator(generatorMap, "python", "flask")

-----------------------------------------------------------------------------
(* Properties of the orchestrator run (Spec): the order of its steps *)

\* the place of a position in the run; the generator lookup sits between the
\* framework and the options, Done and Failed end the run
Rank(position) ==
    CASE position = "CollectName" -> 1
      [] position = "CollectLanguage" -> 2
      [] position = "CollectFramework" -> 3
      [] position = "ResolveGenerator" -> 4
      [] position = "CollectOptions" -> 5
      [] position = "Generate" -> 6
      [] position = "Done" -> 7
      [] position = "Failed" -> 7

\* the run is over
Ended == pc \in {"Done", "Failed"}

\* C15: a run goes through CollectName, CollectLanguage, CollectFramework,
\* CollectOptions and Generate in this order and never back; it stops only in
\* Done or in Failed, where nothing follows; and generate() is called only
\* once the name, the language, the framework and the options are collected.
C15_FixedOrder ==
    /\ [](Ended \/ ENABLED Next)
    /\ [][/\ ~Ended
          /\ pc' = "Failed" \/ Rank(pc') = Rank(pc) + 1
          /\ pc' = "Done" => pc = "Generate"
          /\ GenerateStep =>
                /\ projectName # <<>>
                /\ language \in getLanguageChoices
                /\ framework \in getFrameworkChoices(language)
                /\ DOMAIN options \subseteq Range(getAvailableOptions(generator))]_vars

\* a run that went all the way: prompted name, options chosen, project written
C15_Witness ==
    /\ pc = "Done"
    /\ argName = <<>>
    /\ projectName # <<>>
    /\ framework = "fastapi"
    /\ Enabled(options) # {}

\* C16: when a step fails (a prompt, the generator lookup, generate()), no
\* later step runs, the success message is not printed and the exit status
\* is non-zero; the run ends in Done, with status zero, only when generate()
\* returned without an error.
C16_FailureEndsRun ==
    /\ [](/\ error # NoError <=> pc = "Failed"
          /\ pc = "Failed" <=> exitCode = "nonzero"
          /\ pc = "Done" <=> exitCode = "zero"
          /\ pc = "Done" => IsDir(disk, Target))
    /\ [][pc # "Failed" /\ (pc' = "Failed" => UNCHANGED <<projectName, language,
                                                  framework, options, generator>>)]_vars

\* generate() threw for the existing target: status non-zero, nothing after
C16_Witness ==
    /\ pc = "Failed"
    /\ exitCode = "nonzero"
    /\ error = "Directory already exists"
    /\ ~ENABLED Next

\* C17: when the chosen pair has no registered generator, the run ends in
\* Failed before the options prompt and before anything is written: no
\* generator is constructed and generate() is not called.
C17_NoGeneratorFailsEarly ==
    (framework # "none" /\ KeyOf(language, framework) \notin DOMAIN generatorMap)
        => /\ pc \in {"ResolveGenerator", "Failed"}
           /\ pc = "Failed" => error = "Generator not found"
           /\ options = NoOptions
           /\ generator = NoGenerator
           /\ fault = "none"
           /\ disk \in InitialDisks

\* python with django, which has no generator: failed, directory untouched
C17_Witness ==
    /\ pc = "Failed"
    /\ language = "python" /\ framework = "django"
    /\ error = "Generator not found"
    /\ exitCode = "nonzero"
    /\ disk = EmptyDisk

\* generate() has been called in this run
GenerateCalled ==
    \/ pc \in {"Generate", "Done"}
    \/ pc = "Failed" /\ error \notin {"Generator not found", "prompt aborted"}

\* C18: every key of the options passed to generate() is in the list that
\* the resolved generator's getAvailableOptions() returns, and the options
\* prompt offers exactly that list, in its order.
C18_OptionsWithinAvailable ==
    LET available == getAvailableOptions(generator)
        offered == choices(available)
    IN  /\ pc = "CollectOptions" =>
              [i \in 1..Len(offered) |-> offered[i].value] = available
        /\ GenerateCalled =>
              /\ DOMAIN options \subseteq Range(available)
              /\ DOMAIN Request.options \subseteq Range(available)

\* the Express generator runs with one of its four options ticked
C18_Witness ==
    /\ pc = "Done"
    /\ generator = ExpressGenerator
    /\ DOMAIN Request.options # {}
    /\ DOMAIN Request.options \subseteq {"orm", "migrations", "docker", "tests"}

-----------------------------------------------------------------------------
(* Properties of the template copy and of the template lookup *)

\* C19: the template copy puts an entry of the template tree into the target
\* exactly when every name on its path below the template root either does
\* not start with a dot or is .gitignore; what lies inside a skipped hidden
\* directory is not copied, whatever its own name.
C19_HiddenEntriesSkipped ==
    pc = "Done" =>
        LET tree == TemplateTree(templateDirOf(generator))
        IN  \A rel \in DOMAIN tree :
                pathExists(disk, Path(projectName, rel))
                    <=> \A i \in 1..Len(rel) :
                            ~startsWithDot(rel[i]) \/ rel[i] = ".gitignore"

\* an Express project: .gitignore is there, .vscode and what it holds are
\* not, and neither is the hidden file of src
C19_Witness ==
    /\ pc = "Done"
    /\ generator = ExpressGenerator
    /\ IsFile(disk, Path(projectName, <<".gitignore">>))
    /\ IsFile(disk, Path(projectName, <<"src", "index.js">>))
    /\ ~pathExists(disk, Path(projectName, <<".vscode">>))
    /\ ~pathExists(disk, Path(projectName, <<".vscode", ".gitignore">>))
    /\ ~pathExists(disk, Path(projectName, <<"src", ".env">>))

\* the candidates, in search order, that hold the template directory
CandidatesWith(templateDir) ==
    {i \in 1..Len(PossiblePaths) :
        /\ roots[PossiblePaths[i]].exists
        /\ templateDir \in roots[PossiblePaths[i]].templates}

\* C20: getTemplatePath picks the first candidate, in search order, at which
\* the generator's template directory exists, and generate() fails with the
\* template-missing error only when no candidate holds that directory.
C20_FirstCandidateWithTemplate ==
    LET templateDir == templateDirOf(generator)
        holding == CandidatesWith(templateDir)
    IN  /\ (pc = "Generate" /\ holding # {}) =>
              \E i \in holding :
                  /\ \A j \in holding : i <= j
                  /\ getTemplatePath(roots, templateDir).root = PossiblePaths[i]
        /\ (GenerateCalled /\ error = "Template not found") => holding = {}

-----------------------------------------------------------------------------
(* The two validators of project names, each called on a name as typed: pc  *)
(* records the answer of validateProjectName, error the one of              *)
(* getProjectNameError, in either order.                                    *)

\* the characters the typed names are drawn from: letters of CON in both
\* cases, a plain letter, three of the invalid characters, the line feed
\* (a control character) and the space
TypedAlphabet == {"c", "O", "n", "a", "/", ":", "*", "\n", " "}

\* names of four characters around COM1 and LPT9
LongNames ==
    { <<"c", "O", "m", "1">>, <<"L", "P", "T", "9">>, <<"l", "p", "t", "9">>,
      <<"C", "O", "M", "0">>, <<"c", "o", "n", "s">>, <<"c", "o", "m", "/">> }

TypedNames ==
    UNION {[1..n -> TypedAlphabet] : n \in 0..MaxNameLen} \cup LongNames

ValidateInit ==
    /\ argName \in TypedNames
    /\ pc = "Typed"
    /\ projectName = <<>>
    /\ language = "none"
    /\ framework = "none"
    /\ options = NoOptions
    /\ generator = NoGenerator
    /\ generatorMap = InitialGeneratorMap
    /\ roots = CheckoutRoots
    /\ disk = EmptyDisk
    /\ error = NoError
    /\ exitCode = "none"
    /\ fault = "none"

CallValidateProjectName ==
    /\ pc = "Typed"
    /\ pc' = IF validateProjectName(argName) THEN "Accepted" ELSE "Rejected"
    /\ UNCHANGED <<argName, projectName, language, framework, options, generator,
                   generatorMap, roots, disk, error, exitCode, fault>>

CallGetProjectNameError ==
    /\ pc \in {"Typed", "Accepted", "Rejected"}
    /\ error = NoError
    /\ error' = getProjectNameError(argName)
    /\ UNCHANGED <<argName, pc, projectName, language, framework, options, generator,
                   generatorMap, roots, disk, exitCode, fault>>

ValidateSpec ==
    ValidateInit /\ [][CallValidateProjectName \/ CallGetProjectNameError]_vars

\* the name is a reserved name but for the case of its letters
ReservedButForCase(name) ==
    \E r \in reservedNames :
        /\ Len(r) = Len(name)
        /\ \A i \in 1..Len(r) : name[i] = r[i] \/ name[i] = LowerChar(r[i])

\* the name holds one of the characters the claim lists
HasListedChar(name) == \E i \in 1..Len(name) : name[i] \in {"/", ":", "*", "\n", "\t"}

\* C21: for a name that is empty, holds '/', ':', '*' or a control character,
\* or is a reserved name in any case, validateProjectName answers false and
\* getProjectNameError gives one of its three messages, and the message is
\* that of a rule the name breaks (a name of white space alone counts as
\* empty).
C21_InvalidNamesRejected ==
    (argName = <<>> \/ HasListedChar(argName) \/ ReservedButForCase(argName)) =>
        /\ pc # "Accepted"
        /\ error # "null"
        /\ error = "Project name cannot be empty" =>
              \A i \in 1..Len(argName) : argName[i] \in WhiteSpace
        /\ error = "Project name contains invalid characters" => HasListedChar(argName)
        /\ error = "Project name is a reserved name" => ReservedButForCase(argName)
        /\ error \in {NoError, "Project name cannot be empty",
                       "Project name contains invalid characters",
                       "Project name is a reserved name"}

\* cOm1 was given to both validators: rejected, as a reserved name
C21_Witness ==
    /\ argName = <<"c", "O", "m", "1">>
    /\ pc = "Rejected"
    /\ error = "Project name is a reserved name"

\* C22: validateProjectName answers true for a name exactly when
\* getProjectNameError answers null for it.
C22_ValidatorsAgree ==
    (pc \in {"Accepted", "Rejected"} /\ error # NoError) =>
        (pc = "Accepted" <=> error = "null")

\* both validators were called on a reserved name in mixed case, and on a
\* name both accept
C22_Witness ==
    /\ argName \in {<<"c", "O", "n">>, <<"a", "n">>}
    /\ pc \in {"Accepted", "Rejected"}
    /\ error # NoError

-----------------------------------------------------------------------------
(* Properties of the files one FastAPI run writes (OptSpec) *)

\* C23: for every option set (each option true, false or absent), no package
\* is named by two lines of the generated requirements.txt, so none is
\* listed with two version constraints.
C23_OnePinPerPackage ==
    (FastAPIDone /\ IsFile(disk, Path(projectName, <<"requirements.txt">>))) =>
        LET lines == SplitLines(Manifest)
        IN  \A i, j \in 1..Len(lines) :
                PackageName(lines[i]) = PackageName(lines[j]) => i = j

\* tests enabled: the catalog's pytest line is there and the fallback's is not
C23_Witness ==
    /\ FastAPIDone
    /\ Truthy(options, "tests")
    /\ dep_pytest \o ver_any \in Range(SplitLines(Manifest))
    /\ req_pytest \notin Range(SplitLines(Manifest))

\* the text of a file of the generated project
TextOf(rel) == disk[Path(projectName, rel)].text

\* the endpoints the generated sources speak of
Endpoints == {"/", "/health"}

\* the request of an endpoint in tests/test_main.py
RequestOf(endpoint) ==
    IF endpoint = "/" THEN "client.get(/)" ELSE "client.get(/health)"

\* the route of an endpoint in app/main.py
RouteOf(endpoint) ==
    IF endpoint = "/" THEN "@app.get(/)" ELSE "@app.get(/health)"

\* C24: for every option set, each endpoint that the generated
\* tests/test_main.py requests is defined by the app/main.py of the same run.
C24_TestedEndpointsDefined ==
    (FastAPIDone /\ IsFile(disk, Path(projectName, <<"tests", "test_main.py">>))) =>
        \A endpoint \in Endpoints :
            RequestOf(endpoint) \in Range(TextOf(<<"tests", "test_main.py">>))
                => /\ IsFile(disk, Path(projectName, <<"app", "main.py">>))
                   /\ RouteOf(endpoint) \in Range(TextOf(<<"app", "main.py">>))

\* C25: for every option set with migrations enabled, what the generated
\* alembic/env.py refers to comes from the same run: app/db/models.py is
\* generated and the generated app/core/config.py defines DATABASE_URL.
C25_MigrationReferencesResolved ==
    (FastAPIDone /\ Truthy(options, "migrations")) =>
        /\ IsFile(disk, Path(projectName, <<"alembic", "env.py">>))
        /\ "from app.db.models import Base" \in Range(TextOf(<<"alembic", "env.py">>))
              => IsFile(disk, Path(projectName, <<"app", "db", "models.py">>))
        /\ "settings.DATABASE_URL" \in Range(TextOf(<<"alembic", "env.py">>))
              => /\ IsFile(disk, Path(projectName, <<"app", "core", "config.py">>))
                 /\ "DATABASE_URL" \in Range(TextOf(<<"app", "core", "config.py">>))

-----------------------------------------------------------------------------
(* A run that fails, and the runs made after it with the same project name  *)
(* on the disk it left: the first run is at its call of generate(), a later *)
(* run is taken from its start to its end.                                  *)

\* the options of a run: nothing ticked, or one box
SingleOptions(available) ==
    {NoOptions} \cup {[k \in {key} |-> TRUE] : key \in Range(available)}

RetryInit ==
    /\ argName = PlainName
    /\ pc = "Generate"
    /\ projectName = PlainName
    /\ \E key \in DOMAIN InitialGeneratorMap :
          /\ language = key[1]
          /\ framework = key[2]
          /\ generator = getGenerator(InitialGeneratorMap, key[1], key[2])
    /\ options \in SingleOptions(getAvailableOptions(generator))
    /\ generatorMap = InitialGeneratorMap
    /\ roots = CheckoutRoots
    /\ disk = EmptyDisk
    /\ error = NoError
    /\ exitCode = "none"
    /\ fault = "none"

\* after a failed run the tool is started again with the same name, any
\* registered pair and any options: cli.ts:16-63 down to generate()
RunAgain ==
    /\ pc = "Failed"
    /\ \E key \in DOMAIN generatorMap :
          LET gen == getGenerator(generatorMap, key[1], key[2])
          IN  \E opts \in SingleOptions(getAvailableOptions(gen)) :
                \E flt \in Faults :
                  LET out == generate(gen, disk, roots,
                                      RequestFor(projectName, opts), flt)
                  IN  /\ language' = key[1]
                      /\ framework' = key[2]
                      /\ generator' = gen
                      /\ options' = opts
                      /\ disk' = out.disk
                      /\ error' = out.err
                      /\ fault' = flt
                      /\ pc' = IF out.err = NoError THEN "Done" ELSE "Failed"
                      /\ exitCode' = IF out.err = NoError THEN "zero" ELSE "nonzero"
    /\ UNCHANGED <<argName, projectName, generatorMap, roots>>

RetrySpec == RetryInit /\ [][Generate \/ RunAgain]_vars

\* the run passed both checks of generate() and then failed in the template
\* copy or in the optional files
FailedMidway ==
    /\ pc = "Failed"
    /\ error = "EIO"
    /\ fault \in {"copy", "write", "readdir"}

\* the run failed because the target was there
FailedOnTarget == pc = "Failed" /\ error = "Directory already exists"

\* C26: a run that passed both checks and then failed during the template
\* copy or the optional files leaves the target directory on disk, and every
\* later run with the same project name, whatever its generator and options,
\* fails with the target-exists error and leaves the disk as it was.
C26_FailedRunBlocksName ==
    /\ [](FailedMidway => IsDir(disk, Target))
    /\ [][(FailedMidway \/ FailedOnTarget) =>
            /\ pc' = "Failed"
            /\ error' = "Directory already exists"
            /\ exitCode' = "nonzero"
            /\ disk' = disk]_vars

\* a FastAPI run with tests ticked, made after a run whose template copy
\* failed: the empty target directory stopped it
C26_Witness ==
    /\ FailedOnTarget
    /\ generator = FastAPIGenerator
    /\ Truthy(options, "tests")
    /\ Under(disk, projectName) = {Target}
    /\ IsDir(disk, Target)

-----------------------------------------------------------------------------
(* The pairs the prompts offer and the registry (Spec) *)

\* C27: every framework that the framework prompt offers for a language of
\* LANGUAGE_CONFIGS has a registered generator, so no run that follows the
\* prompts' own choices ends with the generator-not-found failure.
C27_OfferedPairsRegistered ==
    /\ (language \in getLanguageChoices /\ framework \in getFrameworkChoices(language))
          => KeyOf(language, framework) \in DOMAIN generatorMap
    /\ error # "Generator not found"

=============================================================================
